---- MODULE Spec2Model ----
(***************************************************************************)
(* Model of the zwp_text_input_v3 event dispatcher of                      *)
(* src/platform_impl/linux/wayland/seat/text_input/mod.rs:                 *)
(* Dispatch<ZwpTextInputV3, TextInputData, WinitState>::event.             *)
(*                                                                         *)
(* One text-input object (one seat) is modelled.  Every handler runs to    *)
(* completion as one action.  `requests` and `events_sink` hold what the   *)
(* handler of the most recent event issued to the compositor and pushed    *)
(* to the application sink, in order.  An Option<T> is a sequence of       *)
(* length at most one: None is <<>>, Some(x) is <<x>>.  A String is the    *)
(* sequence of its Unicode scalar values; its byte offsets are those of    *)
(* its UTF-8 encoding.                                                     *)
(*                                                                         *)
(* The fields current_preedit, surrounding and surrounding_change of       *)
(* TextInputDataInner are never read or written by the dispatcher          *)
(* (notify_im_change has no caller) and are left out.                      *)
(***************************************************************************)
EXTENDS Integers, Sequences, FiniteSets, TLC

VARIABLES
    surface,                    \* TextInputDataInner.surface
    pending_commit,             \* TextInputDataInner.pending_commit
    pending_preedit,            \* TextInputDataInner.pending_preedit
    pending_surrounding_delete, \* TextInputDataInner.pending_surrounding_delete
    windows,                    \* WinitState.windows: window id -> Option<WindowState>
    requests,                   \* requests issued on the ZwpTextInputV3 by the last handler
    events_sink,                \* window events pushed to WinitState.events_sink by the last handler
    panicked,                   \* the dispatch thread unwound out of the handler
    lastEvent,                  \* history: the event handled last
    txn,                        \* history: Preedit/Commit updates delivered since the last accepted Done
    everEnabled,                \* history: enable() was issued at least once
    effects                     \* history: what the last handler did, in program order

vars == <<surface, pending_commit, pending_preedit, pending_surrounding_delete,
          windows, requests, events_sink, panicked, lastEvent, txn, everEnabled, effects>>

----------------------------------------------------------------------------
(* Bounds and input sets                                                   *)

MaxPreeditCount == 2

None == <<>>
Some(x) == <<x>>

Surfaces == {1, 2}

ImePurposes == {"Normal", "Password", "Terminal"}

\* "z", "ab", "x", "y"
TextZ == <<122>>
TextAB == <<97, 98>>
TextX == <<120>>
TextY == <<121>>

\* Preedit-Update events the compositor may deliver: (text, cursor_begin, cursor_end)
PreeditInputs ==
    { [text |-> Some(TextZ), cursor_begin |-> 0, cursor_end |-> 0],
      [text |-> Some(TextAB), cursor_begin |-> 0, cursor_end |-> 1],
      [text |-> None, cursor_begin |-> -1, cursor_end |-> -1] }

\* Commit-Update events: text is Option<String>
CommitInputs == { None, Some(TextX), Some(TextY) }

\* Delete-Surrounding events: (before_length, after_length), both u32
DeleteInputs == { <<1, 2>>, <<0, 0>> }

----------------------------------------------------------------------------
(* Strings                                                                 *)

\* Number of bytes of the UTF-8 encoding of one scalar value.
Utf8Len(c) == IF c < 128 THEN 1 ELSE IF c < 2048 THEN 2 ELSE IF c < 65536 THEN 3 ELSE 4

RECURSIVE ByteLen(_)
ByteLen(text) == IF text = <<>> THEN 0 ELSE Utf8Len(Head(text)) + ByteLen(Tail(text))

\* str::is_char_boundary: 0 and len are boundaries, and so is the first byte of each char.
IsCharBoundary(text, idx) ==
    \E k \in 0..Len(text) : ByteLen(SubSeq(text, 1, k)) = idx

\* The index conversion with a range test in place of the boundary test.
CursorIdxInRange(text, i) ==
    IF i < 0 THEN None
    ELSE IF i <= ByteLen(text) THEN Some(i) ELSE None

\* usize::try_from(i).ok().and_then(|idx| text.is_char_boundary(idx).then_some(idx))
CursorIdx(text, i) ==
    IF i < 0 THEN None
    ELSE IF IsCharBoundary(text, i) THEN Some(i) ELSE None

\* Option<String>::unwrap_or_default
UnwrapOrDefault(opt) == IF opt = None THEN <<>> ELSE opt[1]

----------------------------------------------------------------------------
(* Window registry (WinitState.windows) and window ids                     *)

make_wid(s) == s

WindowStates == [ime_allowed : BOOLEAN, ime_purpose : ImePurposes, text_inputs : BOOLEAN]

\* A window as the registry holds it before any text input has entered it.
\* The purpose is only read when IME is allowed.
InitialWindowStates ==
    {x \in WindowStates : ~x.text_inputs /\ (~x.ime_allowed => x.ime_purpose = "Normal")}

ime_allowed(w) == windows[w][1].ime_allowed

ime_purpose(w) == windows[w][1].ime_purpose

text_input_entered(w) == [windows EXCEPT ![w] = Some([@[1] EXCEPT !.text_inputs = TRUE])]

text_input_left(w) == [windows EXCEPT ![w] = Some([@[1] EXCEPT !.text_inputs = FALSE])]

----------------------------------------------------------------------------
(* Requests and window events                                              *)

ReqEnable == <<"enable">>
ReqDisable == <<"disable">>
ReqCommit == <<"commit">>
ReqSetSurroundingText(text, cursor, anchor) == <<"set_surrounding_text", text, <<cursor, anchor>>>>
ReqSetContentType(hint, purpose) == <<"set_content_type", hint, purpose>>

ImeEnabled(wid) == <<wid, "Enabled">>
ImeDisabled(wid) == <<wid, "Disabled">>
ImeRetrieveSurroundingText(wid) == <<wid, "RetrieveSurroundingText">>
\* range is None or Some(<<begin, end>>)
ImePreedit(wid, text, range) == <<wid, "Preedit", text, range>>
ImeCommit(wid, content) == <<wid, "Commit", content>>
ImeDeleteSurroundingText(wid, before, after) == <<wid, "DeleteSurroundingText", <<before, after>>>>

\* The mapping with the password hint left out.
set_content_type_without_hint(purpose) == ReqSetContentType("None", purpose)

\* ZwpTextInputV3Ext::set_content_type_by_purpose
set_content_type_by_purpose(purpose) ==
    CASE purpose = "Normal" -> ReqSetContentType("None", "Normal")
      [] purpose = "Password" -> ReqSetContentType("SensitiveData", "Password")
      [] purpose = "Terminal" -> ReqSetContentType("None", "Terminal")

----------------------------------------------------------------------------
(* History variables                                                       *)

\* stale: the last update was delivered while no surface was focused, or a
\* Leave was handled after it;
\* repeat: the accepted Done before this one, with no update in between,
\* flushed a commit or a preedit.
EmptyTxn == [n |-> 0, prev |-> None, last |-> None, commit |-> None,
             commitAfter |-> FALSE, closed |-> FALSE, stale |-> FALSE, repeat |-> FALSE]

OpenTxn == IF txn.closed THEN EmptyTxn ELSE txn

Event(type, s, del) == [type |-> type, surface |-> s, del |-> del]

\* Entries of `effects`: <<kind, what, id>>.
\* state.windows.get_mut() reaches the registry through the exclusive borrow
\* of WinitState; data.inner.lock() and window.lock() take a mutex whose guard
\* is dropped when its scope ends (also when the handler returns early or
\* unwinds).
Issued(reqs) == [i \in 1..Len(reqs) |-> <<"request", reqs[i], 0>>]

Pushed(evs) == [i \in 1..Len(evs) |-> <<"event", evs[i], 0>>]

\* The body of a handler, with the state lock taken before the registry is
\* reached.
InHandlerLockFirst(body) ==
    <<<<"lock", "text_input_data", 0>>, <<"access", "windows", 0>>>>
    \o body
    \o <<<<"unlock", "text_input_data", 0>>>>

\* The body of a handler, between taking and dropping the state lock.
InHandler(body) ==
    <<<<"access", "windows", 0>>, <<"lock", "text_input_data", 0>>>>
    \o body
    \o <<<<"unlock", "text_input_data", 0>>>>

\* What a handler does while it holds the lock of window wid.
InWindow(wid, body) ==
    <<<<"lock", "window", wid>>>> \o body \o <<<<"unlock", "window", wid>>>>

----------------------------------------------------------------------------
Init ==
    /\ surface = None
    /\ pending_commit = None
    /\ pending_preedit = None
    /\ pending_surrounding_delete = None
    /\ windows \in [Surfaces -> {None} \cup {Some(w) : w \in InitialWindowStates}]
    /\ requests = <<>>
    /\ events_sink = <<>>
    /\ panicked = FALSE
    /\ lastEvent = Event("none", None, None)
    /\ txn = EmptyTxn
    /\ everEnabled = FALSE
    /\ effects = <<>>

----------------------------------------------------------------------------
(* Handlers of Dispatch<ZwpTextInputV3, TextInputData, WinitState>::event   *)

\* The part of a handler common to all arms: the state lock is taken with
\* lock().unwrap(), so nothing is handled once a handler has panicked.
Dispatching == ~panicked

\* TextInputEvent::Enter { surface }, with the surface recorded only once the
\* window is found and allows IME.
EnterRecordIfAllowed(s) ==
    /\ Dispatching
    /\ LET wid == make_wid(s)
           on == windows[wid] # None /\ ime_allowed(wid) IN
       /\ surface' = IF on THEN Some(s) ELSE surface
       /\ requests' = IF on
                      THEN <<ReqEnable, ReqSetSurroundingText(<<32>>, 1, 1),
                             set_content_type_by_purpose(ime_purpose(wid)), ReqCommit>>
                      ELSE <<>>
       /\ events_sink' = IF on THEN <<ImeEnabled(wid)>> ELSE <<>>
       /\ everEnabled' = (everEnabled \/ on)
       /\ windows' = IF windows[wid] # None THEN text_input_entered(wid) ELSE windows
    /\ lastEvent' = Event("Enter", Some(s), None)
    /\ effects' = InHandler(IF windows[make_wid(s)] = None THEN <<>>
                            ELSE InWindow(make_wid(s),
                                          Issued(requests') \o Pushed(events_sink')))
    /\ UNCHANGED <<pending_commit, pending_preedit, pending_surrounding_delete, panicked, txn>>

\* TextInputEvent::Enter { surface }, with the commit issued before the content
\* type is set.
EnterCommitBeforeContentType(s) ==
    /\ Dispatching
    /\ surface' = Some(s)
    /\ LET wid == make_wid(s) IN
       IF windows[wid] = None
       THEN /\ requests' = <<>>
            /\ events_sink' = <<>>
            /\ UNCHANGED <<windows, everEnabled>>
       ELSE /\ IF ime_allowed(wid)
               THEN /\ requests' = <<ReqEnable, ReqSetSurroundingText(<<32>>, 1, 1),
                                     ReqCommit, set_content_type_by_purpose(ime_purpose(wid))>>
                    /\ events_sink' = <<ImeEnabled(wid)>>
                    /\ everEnabled' = TRUE
               ELSE /\ requests' = <<>>
                    /\ events_sink' = <<>>
                    /\ UNCHANGED everEnabled
            /\ windows' = text_input_entered(wid)
    /\ lastEvent' = Event("Enter", Some(s), None)
    /\ effects' = InHandler(IF windows[make_wid(s)] = None THEN <<>>
                            ELSE InWindow(make_wid(s),
                                          Issued(requests') \o Pushed(events_sink')))
    /\ UNCHANGED <<pending_commit, pending_preedit, pending_surrounding_delete, panicked, txn>>

\* TextInputEvent::Enter { surface }
Enter(s) ==
    /\ Dispatching
    /\ surface' = Some(s)
    /\ LET wid == make_wid(s) IN
       IF windows[wid] = None
       THEN /\ requests' = <<>>
            /\ events_sink' = <<>>
            /\ UNCHANGED <<windows, everEnabled>>
       ELSE /\ IF ime_allowed(wid)
               THEN /\ requests' = <<ReqEnable, ReqSetSurroundingText(<<32>>, 1, 1),
                                     set_content_type_by_purpose(ime_purpose(wid)), ReqCommit>>
                    /\ events_sink' = <<ImeEnabled(wid)>>
                    /\ everEnabled' = TRUE
               ELSE /\ requests' = <<>>
                    /\ events_sink' = <<>>
                    /\ UNCHANGED everEnabled
            /\ windows' = text_input_entered(wid)
    /\ lastEvent' = Event("Enter", Some(s), None)
    /\ effects' = InHandler(IF windows[make_wid(s)] = None THEN <<>>
                            ELSE InWindow(make_wid(s),
                                          Issued(requests') \o Pushed(events_sink')))
    /\ UNCHANGED <<pending_commit, pending_preedit, pending_surrounding_delete, panicked, txn>>

\* History: a Leave was handled; updates delivered before it and not yet
\* flushed were staged in the focus session it ends.
TxnLeave ==
    IF ~txn.closed /\ (txn.last # None \/ txn.commit # None)
    THEN [txn EXCEPT !.stale = TRUE]
    ELSE txn

\* TextInputEvent::Leave { surface }, with the window looked up before the
\* disable is issued.
LeaveLookupFirst(s) ==
    /\ Dispatching
    /\ surface' = None
    /\ LET wid == make_wid(s) IN
       IF windows[wid] = None
       THEN /\ requests' = <<>>
            /\ events_sink' = <<>>
            /\ UNCHANGED windows
       ELSE /\ requests' = <<ReqDisable, ReqCommit>>
            /\ windows' = text_input_left(wid)
            /\ events_sink' = <<ImeDisabled(wid)>>
    /\ lastEvent' = Event("Leave", Some(s), None)
    /\ effects' = InHandler(IF windows[make_wid(s)] = None THEN <<>>
                            ELSE InWindow(make_wid(s),
                                          Issued(requests') \o Pushed(events_sink')))
    /\ txn' = TxnLeave
    /\ UNCHANGED <<pending_commit, pending_preedit, pending_surrounding_delete,
                   panicked, everEnabled>>

\* TextInputEvent::Leave { surface }, with the focus cleared only when the event
\* names the focused surface.
LeaveIfFocused(s) ==
    /\ Dispatching
    /\ surface' = IF surface = Some(s) THEN None ELSE surface
    /\ requests' = <<ReqDisable, ReqCommit>>
    /\ LET wid == make_wid(s) IN
       IF windows[wid] = None
       THEN /\ events_sink' = <<>>
            /\ UNCHANGED windows
       ELSE /\ windows' = text_input_left(wid)
            /\ events_sink' = <<ImeDisabled(wid)>>
    /\ lastEvent' = Event("Leave", Some(s), None)
    /\ effects' = InHandler(Issued(requests')
                            \o (IF windows[make_wid(s)] = None THEN <<>>
                                ELSE InWindow(make_wid(s), Pushed(events_sink'))))
    /\ txn' = TxnLeave
    /\ UNCHANGED <<pending_commit, pending_preedit, pending_surrounding_delete,
                   panicked, everEnabled>>

\* TextInputEvent::Leave { surface }, with Ime::Disabled pushed before the
\* disable is issued.
LeaveNotifyFirst(s) ==
    /\ Dispatching
    /\ surface' = None
    /\ requests' = <<ReqDisable, ReqCommit>>
    /\ LET wid == make_wid(s) IN
       IF windows[wid] = None
       THEN /\ events_sink' = <<>>
            /\ UNCHANGED windows
       ELSE /\ windows' = text_input_left(wid)
            /\ events_sink' = <<ImeDisabled(wid)>>
    /\ lastEvent' = Event("Leave", Some(s), None)
    /\ effects' = InHandler((IF windows[make_wid(s)] = None THEN <<>>
                             ELSE InWindow(make_wid(s), Pushed(events_sink')))
                            \o Issued(requests'))
    /\ txn' = TxnLeave
    /\ UNCHANGED <<pending_commit, pending_preedit, pending_surrounding_delete,
                   panicked, everEnabled>>

\* TextInputEvent::Leave { surface }, with the pending fields reset.
LeaveResetPending(s) ==
    /\ Dispatching
    /\ surface' = None
    /\ pending_commit' = None
    /\ pending_preedit' = None
    /\ pending_surrounding_delete' = None
    /\ requests' = <<ReqDisable, ReqCommit>>
    /\ LET wid == make_wid(s) IN
       IF windows[wid] = None
       THEN /\ events_sink' = <<>>
            /\ UNCHANGED windows
       ELSE /\ windows' = text_input_left(wid)
            /\ events_sink' = <<ImeDisabled(wid)>>
    /\ lastEvent' = Event("Leave", Some(s), None)
    /\ effects' = InHandler(Issued(requests')
                            \o (IF windows[make_wid(s)] = None THEN <<>>
                                ELSE InWindow(make_wid(s), Pushed(events_sink'))))
    /\ txn' = TxnLeave
    /\ UNCHANGED <<panicked, everEnabled>>

\* TextInputEvent::Leave { surface }
Leave(s) ==
    /\ Dispatching
    /\ surface' = None
    /\ requests' = <<ReqDisable, ReqCommit>>
    /\ LET wid == make_wid(s) IN
       IF windows[wid] = None
       THEN /\ events_sink' = <<>>
            /\ UNCHANGED windows
       ELSE /\ windows' = text_input_left(wid)
            /\ events_sink' = <<ImeDisabled(wid)>>
    /\ lastEvent' = Event("Leave", Some(s), None)
    /\ effects' = InHandler(Issued(requests')
                            \o (IF windows[make_wid(s)] = None THEN <<>>
                                ELSE InWindow(make_wid(s), Pushed(events_sink'))))
    /\ txn' = TxnLeave
    /\ UNCHANGED <<pending_commit, pending_preedit, pending_surrounding_delete,
                   panicked, everEnabled>>

\* The Preedit value built from a PreeditString event.
NewPreedit(ev) ==
    LET text == UnwrapOrDefault(ev.text) IN
    [text |-> text,
     cursor_begin |-> CursorIdx(text, ev.cursor_begin),
     cursor_end |-> CursorIdx(text, ev.cursor_end)]

\* History: a Preedit-Update was delivered.
TxnPreedit(ev) ==
    [OpenTxn EXCEPT !.n = IF @ < MaxPreeditCount THEN @ + 1 ELSE @,
                    !.prev = IF OpenTxn.last = None THEN None
                             ELSE Some(UnwrapOrDefault(OpenTxn.last[1].text)),
                    !.last = Some(ev),
                    !.commitAfter = FALSE,
                    !.stale = (surface = None)]

\* TextInputEvent::PreeditString, keeping a preedit that is already pending.
PreeditStringKeepFirst(ev) ==
    /\ Dispatching
    /\ pending_preedit' = IF pending_preedit = None THEN Some(NewPreedit(ev))
                          ELSE pending_preedit
    /\ requests' = <<>>
    /\ events_sink' = <<>>
    /\ lastEvent' = Event("PreeditString", None, None)
    /\ txn' = TxnPreedit(ev)
    /\ effects' = InHandler(Issued(requests') \o Pushed(events_sink'))
    /\ UNCHANGED <<surface, pending_commit, pending_surrounding_delete, windows,
                   panicked, everEnabled>>

\* TextInputEvent::PreeditString { text, cursor_begin, cursor_end }
PreeditString(ev) ==
    /\ Dispatching
    /\ pending_preedit' = Some(NewPreedit(ev))
    /\ requests' = <<>>
    /\ events_sink' = <<>>
    /\ lastEvent' = Event("PreeditString", None, None)
    /\ txn' = TxnPreedit(ev)
    /\ effects' = InHandler(Issued(requests') \o Pushed(events_sink'))
    /\ UNCHANGED <<surface, pending_commit, pending_surrounding_delete, windows,
                   panicked, everEnabled>>

\* History: a Commit-Update was delivered.
TxnCommit(text) ==
    [OpenTxn EXCEPT !.commit = Some(text), !.commitAfter = TRUE,
                    !.stale = (surface = None)]

\* TextInputEvent::CommitString, leaving the pending preedit in place.
CommitStringKeepPreedit(text) ==
    /\ Dispatching
    /\ pending_commit' = text
    /\ requests' = <<>>
    /\ events_sink' = <<>>
    /\ lastEvent' = Event("CommitString", None, None)
    /\ txn' = TxnCommit(text)
    /\ effects' = InHandler(Issued(requests') \o Pushed(events_sink'))
    /\ UNCHANGED <<surface, pending_preedit, pending_surrounding_delete, windows,
                   panicked, everEnabled>>

\* TextInputEvent::CommitString { text }
CommitString(text) ==
    /\ Dispatching
    /\ pending_preedit' = None
    /\ pending_commit' = text
    /\ requests' = <<>>
    /\ events_sink' = <<>>
    /\ lastEvent' = Event("CommitString", None, None)
    /\ txn' = TxnCommit(text)
    /\ effects' = InHandler(Issued(requests') \o Pushed(events_sink'))
    /\ UNCHANGED <<surface, pending_surrounding_delete, windows, panicked, everEnabled>>

\* The cursor range, absent as soon as either index is absent.
CursorRangeBothOrNone(preedit) ==
    IF preedit.cursor_begin = None \/ preedit.cursor_end = None THEN None
    ELSE Some(<<preedit.cursor_begin[1], preedit.cursor_end[1]>>)

\* preedit.cursor_begin.map(|b| (b, preedit.cursor_end.unwrap_or(b)))
CursorRange(preedit) ==
    IF preedit.cursor_begin = None THEN None
    ELSE LET b == preedit.cursor_begin[1] IN
         Some(<<b, IF preedit.cursor_end = None THEN b ELSE preedit.cursor_end[1]>>)

\* The window events of the Done arm, with the preedit-cleared notification
\* left out when a preedit is pending.
DoneEventsClearedUnlessPending(wid) ==
    <<ImeRetrieveSurroundingText(wid)>>
    \o (IF pending_preedit = None THEN <<ImePreedit(wid, <<>>, None)>> ELSE <<>>)
    \o (IF pending_surrounding_delete = None THEN <<>>
        ELSE <<ImeDeleteSurroundingText(wid, pending_surrounding_delete[1].before_length,
                                        pending_surrounding_delete[1].after_length)>>)
    \o (IF pending_commit = None THEN <<>> ELSE <<ImeCommit(wid, pending_commit[1])>>)
    \o (IF pending_preedit = None THEN <<>>
        ELSE <<ImePreedit(wid, pending_preedit[1].text, CursorRange(pending_preedit[1]))>>)

\* The window events the Done arm pushes once the window id is known, in order.
DoneEvents(wid) ==
    <<ImeRetrieveSurroundingText(wid), ImePreedit(wid, <<>>, None)>>
    \o (IF pending_surrounding_delete = None THEN <<>>
        ELSE <<ImeDeleteSurroundingText(wid, pending_surrounding_delete[1].before_length,
                                        pending_surrounding_delete[1].after_length)>>)
    \o (IF pending_commit = None THEN <<>> ELSE <<ImeCommit(wid, pending_commit[1])>>)
    \o (IF pending_preedit = None THEN <<>>
        ELSE <<ImePreedit(wid, pending_preedit[1].text, CursorRange(pending_preedit[1]))>>)

\* History: a Done was accepted; the updates it flushed stay readable until
\* the next update is delivered.
TxnDone ==
    IF txn.closed
    THEN [EmptyTxn EXCEPT !.closed = TRUE,
                          !.repeat = \/ txn.repeat
                                     \/ txn.last # None /\ ~txn.commitAfter
                                     \/ txn.commit # None /\ txn.commit[1] # None]
    ELSE [txn EXCEPT !.closed = TRUE]

\* TextInputEvent::Done, taking the pending fields before the surface is checked.
DoneTakeFirst ==
    /\ Dispatching
    /\ requests' = <<>>
    /\ lastEvent' = Event("Done", None, None)
    /\ pending_surrounding_delete' = None
    /\ pending_commit' = None
    /\ pending_preedit' = None
    /\ IF surface = None
       THEN /\ events_sink' = <<>>
            /\ UNCHANGED txn
       ELSE /\ events_sink' = DoneEvents(make_wid(surface[1]))
            /\ txn' = TxnDone
    /\ effects' = InHandler(Issued(requests') \o Pushed(events_sink'))
    /\ UNCHANGED <<surface, windows, panicked, everEnabled>>

\* TextInputEvent::Done, returning when the window of the surface is not in
\* the registry.
DoneLookupWindow ==
    /\ Dispatching
    /\ requests' = <<>>
    /\ lastEvent' = Event("Done", None, None)
    /\ IF surface = None \/ windows[make_wid(surface[1])] = None
       THEN /\ events_sink' = <<>>
            /\ UNCHANGED <<pending_surrounding_delete, pending_commit, pending_preedit, txn>>
       ELSE /\ events_sink' = DoneEvents(make_wid(surface[1]))
            /\ pending_surrounding_delete' = None
            /\ pending_commit' = None
            /\ pending_preedit' = None
            /\ txn' = TxnDone
    /\ effects' = InHandler(Issued(requests') \o Pushed(events_sink'))
    /\ UNCHANGED <<surface, windows, panicked, everEnabled>>

\* TextInputEvent::Done, reading the pending commit without taking it.
DoneKeepCommit ==
    /\ Dispatching
    /\ requests' = <<>>
    /\ lastEvent' = Event("Done", None, None)
    /\ IF surface = None
       THEN /\ events_sink' = <<>>
            /\ UNCHANGED <<pending_surrounding_delete, pending_preedit, txn>>
       ELSE /\ events_sink' = DoneEvents(make_wid(surface[1]))
            /\ pending_surrounding_delete' = None
            /\ pending_preedit' = None
            /\ txn' = TxnDone
    /\ effects' = InHandler(Issued(requests') \o Pushed(events_sink'))
    /\ UNCHANGED <<surface, pending_commit, windows, panicked, everEnabled>>

\* TextInputEvent::Done { .. }
Done ==
    /\ Dispatching
    /\ requests' = <<>>
    /\ lastEvent' = Event("Done", None, None)
    /\ IF surface = None
       THEN /\ events_sink' = <<>>
            /\ UNCHANGED <<pending_surrounding_delete, pending_commit, pending_preedit, txn>>
       ELSE /\ events_sink' = DoneEvents(make_wid(surface[1]))
            /\ pending_surrounding_delete' = None
            /\ pending_commit' = None
            /\ pending_preedit' = None
            /\ txn' = TxnDone
    /\ effects' = InHandler(Issued(requests') \o Pushed(events_sink'))
    /\ UNCHANGED <<surface, windows, panicked, everEnabled>>

\* TextInputEvent::DeleteSurroundingText { before_length, after_length }:
\* unimplemented!() panics before anything is staged; the statements after it
\* are never run.
DeleteSurroundingText(before_length, after_length) ==
    /\ Dispatching
    /\ panicked' = TRUE
    /\ requests' = <<>>
    /\ events_sink' = <<>>
    /\ lastEvent' = Event("DeleteSurroundingText", None, Some(<<before_length, after_length>>))
    /\ effects' = InHandler(<<>>)
    /\ UNCHANGED <<surface, pending_commit, pending_preedit, pending_surrounding_delete,
                   windows, txn, everEnabled>>

\* Any other event variant: logged, nothing else.
OtherEvent ==
    /\ Dispatching
    /\ requests' = <<>>
    /\ events_sink' = <<>>
    /\ lastEvent' = Event("Other", None, None)
    /\ effects' = InHandler(Issued(requests') \o Pushed(events_sink'))
    /\ UNCHANGED <<surface, pending_commit, pending_preedit, pending_surrounding_delete,
                   windows, panicked, txn, everEnabled>>

\* The application drops a window: it leaves the registry.  The compositor
\* may still name its surface in events already on the wire.
DropWindow(w) ==
    /\ Dispatching
    /\ windows[w] # None
    /\ windows' = [windows EXCEPT ![w] = None]
    /\ requests' = <<>>
    /\ events_sink' = <<>>
    /\ lastEvent' = Event("none", None, None)
    /\ effects' = <<>>
    /\ UNCHANGED <<surface, pending_commit, pending_preedit, pending_surrounding_delete,
                   panicked, txn, everEnabled>>

Next ==
    \/ \E s \in Surfaces : Enter(s)
    \/ \E s \in Surfaces : Leave(s)
    \/ \E ev \in PreeditInputs : PreeditString(ev)
    \/ \E text \in CommitInputs : CommitString(text)
    \/ Done
    \/ \E d \in DeleteInputs : DeleteSurroundingText(d[1], d[2])
    \/ OtherEvent
    \/ \E w \in Surfaces : DropWindow(w)

Spec == Init /\ [][Next]_vars

----------------------------------------------------------------------------
(* Vocabulary of the properties                                            *)

Delivered(type) == lastEvent.type = type

\* The last event was a Done handled while a surface was focused.
AcceptedDone == Delivered("Done") /\ surface # None

FocusedWid == make_wid(surface[1])

Tracked(w) == windows[w] # None

IsPreedit(e) == e[2] = "Preedit"

NotRetrieve(e) == e[2] # "RetrieveSurroundingText"

\* The IME text notifications of the last handler: everything but the
\* request to refresh the surrounding text.
ImeNotifications == SelectSeq(events_sink, NotRetrieve)

PreeditCleared(wid) == ImePreedit(wid, <<>>, None)

EventTypes(es) == [i \in 1..Len(es) |-> es[i][2]]

\* What the updates delivered since the last accepted Done call for, in
\* terms of the delivered events alone.
TxnCommitEvents(wid) ==
    IF txn.commit = None \/ txn.commit[1] = None THEN <<>>
    ELSE <<ImeCommit(wid, txn.commit[1][1])>>

TxnPreeditPending == txn.last # None /\ ~txn.commitAfter

----------------------------------------------------------------------------
(* C1: at every accepted transaction boundary the notifications come in the
   order preedit-cleared, delete-surrounding-text (if staged), commit (if
   staged), preedit (if staged); a delivered Delete-Surrounding(b, a) is
   staged for that boundary, as in [delete(1,2), commit("y"),
   preedit("z",0,0), boundary].  The handler of Delete-Surrounding panics
   instead of staging, so the statement fails on the first event of the
   example. *)
C1_FixedFlushOrder ==
    /\ Delivered("DeleteSurroundingText") =>
          /\ ~panicked
          /\ pending_surrounding_delete =
                Some([before_length |-> lastEvent.del[1][1],
                      after_length |-> lastEvent.del[1][2]])
    /\ AcceptedDone =>
          /\ Len(ImeNotifications) >= 1
          /\ ImeNotifications[1] = PreeditCleared(FocusedWid)
          /\ EventTypes(Tail(ImeNotifications)) \in
                { <<>>, <<"DeleteSurroundingText">>, <<"Commit">>, <<"Preedit">>,
                  <<"DeleteSurroundingText", "Commit">>,
                  <<"DeleteSurroundingText", "Preedit">>,
                  <<"Commit", "Preedit">>,
                  <<"DeleteSurroundingText", "Commit", "Preedit">> }

(* C2: when a Commit-Update followed the Preedit-Updates of a transaction and
   no Preedit-Update came after it, the accepted boundary emits the
   preedit-cleared notification and the commit (if the commit carried a
   text) and no other preedit notification. *)
C2_CommitClearsPreedit ==
    (AcceptedDone /\ txn.n >= 1 /\ txn.commitAfter) =>
        ImeNotifications = <<PreeditCleared(FocusedWid)>> \o TxnCommitEvents(FocusedWid)

\* [preedit("ab",0,1), commit("x"), boundary] was handled on a focused surface.
C2_Witness ==
    /\ AcceptedDone
    /\ txn.n >= 1
    /\ txn.commitAfter
    /\ txn.last[1].text = Some(TextAB)
    /\ txn.commit = Some(Some(TextX))
    /\ ImeNotifications = <<PreeditCleared(FocusedWid), ImeCommit(FocusedWid, TextX)>>

(* C3: handling Delete-Surrounding(before, after) stages exactly those
   lengths into pending_surrounding_delete, pushes no window event and
   issues no request.  The handler panics before staging. *)
C3_DeleteOnlyStages ==
    Delivered("DeleteSurroundingText") =>
        /\ pending_surrounding_delete # None
        /\ pending_surrounding_delete[1].before_length = lastEvent.del[1][1]
        /\ pending_surrounding_delete[1].after_length = lastEvent.del[1][2]
        /\ events_sink = <<>>
        /\ requests = <<>>

(* C4: no event aborts the dispatch thread: a panicked dispatcher is
   unreachable.  Delete-Surrounding reaches it. *)
C4_NoEventAborts == ~panicked

(* C5: every Focus-Leave issues exactly disable then commit, whether or not
   enable was ever sent and whether or not the surface resolves to a
   tracked window. *)
C5_LeaveDisablesThenCommits ==
    Delivered("Leave") => requests = <<ReqDisable, ReqCommit>>

\* A Leave for an untracked surface, on an object that never sent enable.
C5_Witness ==
    /\ Delivered("Leave")
    /\ ~everEnabled
    /\ ~Tracked(make_wid(lastEvent.surface[1]))
    /\ requests = <<ReqDisable, ReqCommit>>

(* C6: a Focus-Enter on a tracked window that disallows IME issues no
   request and pushes no ImeEnabled but records the surface; a later
   boundary on that surface is accepted and its notifications are
   addressed to that window. *)
C6_DisallowedEnterRecordsFocus ==
    /\ (/\ Delivered("Enter")
        /\ Tracked(make_wid(lastEvent.surface[1]))
        /\ ~ime_allowed(make_wid(lastEvent.surface[1]))) =>
          /\ requests = <<>>
          /\ events_sink = <<>>
          /\ surface = lastEvent.surface
    /\ (Delivered("Done") /\ surface # None /\ Tracked(FocusedWid) /\ ~ime_allowed(FocusedWid)) =>
          /\ Len(events_sink) >= 2
          /\ \A i \in 1..Len(events_sink) : events_sink[i][1] = FocusedWid

\* A boundary flushing a commit to a window that disallows IME, on an object
\* that never sent enable.
C6_Witness ==
    /\ AcceptedDone
    /\ Tracked(FocusedWid)
    /\ ~ime_allowed(FocusedWid)
    /\ ~everEnabled
    /\ events_sink = <<ImeRetrieveSurroundingText(FocusedWid), PreeditCleared(FocusedWid),
                       ImeCommit(FocusedWid, TextX)>>

(* C7: immediately after any Focus-Leave every pending field is none.  The
   Leave handler only clears the surface. *)
C7_LeaveResetsPending ==
    Delivered("Leave") =>
        /\ pending_commit = None
        /\ pending_preedit = None
        /\ pending_surrounding_delete = None

(* C8: a boundary that arrives while no surface is focused pushes no window
   event, issues no request and leaves the surface and every pending field
   unchanged. *)
C8_OrphanBoundaryDropped ==
    [][(Delivered("Done")' /\ surface = None) =>
          /\ UNCHANGED <<surface, pending_commit, pending_preedit, pending_surrounding_delete>>
          /\ events_sink' = <<>>
          /\ requests' = <<>>]_vars

\* A boundary was dropped with a commit and a preedit staged.
C8_Witness ==
    /\ Delivered("Done")
    /\ surface = None
    /\ pending_commit # None
    /\ pending_preedit # None
    /\ events_sink = <<>>

(* C9 as stated: a boundary whose focused surface does not resolve to a
   tracked window pushes no window event. *)
C9_UntrackedBoundaryDropped ==
    (Delivered("Done") /\ surface # None /\ ~Tracked(FocusedWid)) => events_sink = <<>>

(* C9, amended: a boundary whose focused surface is set is accepted even
   when the surface does not resolve to a tracked window: it pushes
   RetrieveSurroundingText, preedit-cleared and the staged commit and
   preedit, addressed to the window id of the focused surface. *)
C9_UntrackedBoundaryAccepted ==
    (Delivered("Done") /\ surface # None /\ ~Tracked(FocusedWid)) =>
        /\ Len(events_sink) >= 2
        /\ events_sink[1] = ImeRetrieveSurroundingText(FocusedWid)
        /\ events_sink[2] = PreeditCleared(FocusedWid)
        /\ \A i \in 1..Len(events_sink) : events_sink[i][1] = FocusedWid
        /\ EventTypes(SubSeq(events_sink, 3, Len(events_sink))) =
              EventTypes(TxnCommitEvents(FocusedWid))
              \o (IF TxnPreeditPending THEN <<"Preedit">> ELSE <<>>)

\* A boundary flushed a staged commit for a surface whose window is not tracked.
C9_Witness ==
    /\ AcceptedDone
    /\ ~Tracked(FocusedWid)
    /\ Len(events_sink) = 3
    /\ events_sink[3] = ImeCommit(FocusedWid, TextX)

(* C10: after one or more Preedit-Updates with no Commit-Update after the
   last of them, an accepted boundary pushes, after the preedit-cleared
   notification, exactly one preedit notification, and its text is the text
   of the last Preedit-Update. *)
C10_LastPreeditWins ==
    (AcceptedDone /\ txn.n >= 1 /\ ~txn.commitAfter) =>
        LET after == SelectSeq(Tail(ImeNotifications), IsPreedit) IN
        /\ ImeNotifications[1] = PreeditCleared(FocusedWid)
        /\ Len(after) = 1
        /\ after[1][3] = UnwrapOrDefault(txn.last[1].text)

\* Two Preedit-Updates with different texts were flushed by one boundary.
C10_Witness ==
    /\ AcceptedDone
    /\ txn.n >= 2
    /\ ~txn.commitAfter
    /\ txn.prev # Some(UnwrapOrDefault(txn.last[1].text))
    /\ Len(SelectSeq(events_sink, IsPreedit)) = 2

----------------------------------------------------------------------------
(* Preedit-Updates with arbitrary cursor offsets                           *)

MaxOffset == 3

\* "a" followed by "e-acute" (two bytes in UTF-8): offsets 0, 1 and 3 are
\* character boundaries, 2 is not
TextAEAcute == <<97, 233>>

CursorTexts == { None, Some(TextAEAcute) }

\* i32 offsets: the small ones and the two ends of the type
CursorOffsets == (-1..MaxOffset) \cup { -2147483647 - 1, 2147483647 }

CursorPreeditInputs ==
    [text : CursorTexts, cursor_begin : CursorOffsets, cursor_end : CursorOffsets]

\* One tracked window and one surface whose window is gone.
InitCursor ==
    /\ Init
    /\ windows = [s \in Surfaces |->
                    IF s = 1 THEN Some([ime_allowed |-> TRUE, ime_purpose |-> "Normal",
                                        text_inputs |-> FALSE])
                    ELSE None]

NextCursor ==
    \/ \E s \in Surfaces : Enter(s)
    \/ \E s \in Surfaces : Leave(s)
    \/ \E ev \in CursorPreeditInputs : PreeditString(ev)
    \/ Done

SpecCursor == InitCursor /\ [][NextCursor]_vars

\* The byte offsets of a text that fall on a character boundary.
CharBoundaries(text) == { ByteLen(SubSeq(text, 1, k)) : k \in 0..Len(text) }

\* The Preedit-Update flushed by the last accepted Done, and its text.
FlushedPreedit == txn.last[1]

FlushedText == UnwrapOrDefault(FlushedPreedit.text)

\* The last accepted Done flushed a Preedit-Update whose offsets satisfy
\* 0 <= begin <= end <= length.
FlushedOrderedOffsets ==
    /\ AcceptedDone
    /\ TxnPreeditPending
    /\ 0 <= FlushedPreedit.cursor_begin
    /\ FlushedPreedit.cursor_begin <= FlushedPreedit.cursor_end
    /\ FlushedPreedit.cursor_end <= ByteLen(FlushedText)

\* The cursor range of the preedit notification pushed last.
EmittedRange == events_sink[Len(events_sink)][4]

(* C11 as stated: for offsets 0 <= b <= e <= length flushed at an accepted
   boundary, the range is (b, e) when both are character boundaries and is
   absent if and only if the offsets were not both character boundaries. *)
C11_RangeAbsentIffInvalid ==
    FlushedOrderedOffsets =>
        LET b == FlushedPreedit.cursor_begin
            e == FlushedPreedit.cursor_end
            ok == b \in CharBoundaries(FlushedText) /\ e \in CharBoundaries(FlushedText) IN
        /\ ~panicked
        /\ ok => EmittedRange = Some(<<b, e>>)
        /\ ~ok <=> EmittedRange = None

(* C11, amended: for offsets 0 <= b <= e <= length flushed at an accepted
   boundary, the range is (b, e) when both are character boundaries, (b, b)
   when only b is one, and absent if and only if b is not a character
   boundary; no offset pair panics. *)
C11_RangeFollowsBegin ==
    FlushedOrderedOffsets =>
        LET b == FlushedPreedit.cursor_begin
            e == FlushedPreedit.cursor_end IN
        /\ ~panicked
        /\ events_sink[Len(events_sink)][3] = FlushedText
        /\ EmittedRange =
              IF b \notin CharBoundaries(FlushedText) THEN None
              ELSE IF e \in CharBoundaries(FlushedText) THEN Some(<<b, e>>)
              ELSE Some(<<b, b>>)

\* preedit("a e-acute", 1, 2) was flushed: begin is a boundary, end is inside
\* the second character, and the range is (1, 1).
C11_Witness ==
    /\ FlushedOrderedOffsets
    /\ FlushedPreedit = [text |-> Some(TextAEAcute), cursor_begin |-> 1, cursor_end |-> 2]
    /\ EmittedRange = Some(<<1, 1>>)

\* What one offset of a Preedit-Update must be staged as.
StagedIndex(text, i) == IF i \in CharBoundaries(text) THEN Some(i) ELSE None

(* C17: after any Preedit-Update, whatever its i32 offsets, the staged
   preedit holds the delivered text (the empty string when it is missing),
   and cursor_begin and cursor_end are each the delivered offset when it is
   a character boundary in 0..=length of that text and absent otherwise,
   each decided on its own; the handler does not panic. *)
C17_StagedCursorsValid ==
    Delivered("PreeditString") =>
        LET ev == txn.last[1]
            text == UnwrapOrDefault(ev.text) IN
        /\ ~panicked
        /\ pending_preedit # None
        /\ pending_preedit[1].text = text
        /\ ev.text = None => pending_preedit[1].text = <<>>
        /\ pending_preedit[1].cursor_begin = StagedIndex(text, ev.cursor_begin)
        /\ pending_preedit[1].cursor_end = StagedIndex(text, ev.cursor_end)
        /\ \A c \in {pending_preedit[1].cursor_begin, pending_preedit[1].cursor_end} :
              c # None => (c[1] \in CharBoundaries(text) /\ c[1] \in 0..ByteLen(text))

\* preedit("a e-acute", 2, 3): begin is inside the two-byte character and is
\* staged as absent, end is the length and is staged as 3.
C17_Witness ==
    /\ Delivered("PreeditString")
    /\ txn.last[1] = [text |-> Some(TextAEAcute), cursor_begin |-> 2, cursor_end |-> 3]
    /\ pending_preedit = Some([text |-> TextAEAcute, cursor_begin |-> None,
                               cursor_end |-> Some(3)])

----------------------------------------------------------------------------
(* Focus entry and exit                                                    *)

\* The window id the last Enter or Leave names.
EventWid == make_wid(lastEvent.surface[1])

\* The last event was an Enter on a tracked window that allows IME.
EnabledEnter == Delivered("Enter") /\ Tracked(EventWid) /\ ime_allowed(EventWid)

IsSetContentType(r) == r[1] = "set_content_type"

\* The content type each purpose stands for.
ContentTypeOf ==
    [p \in ImePurposes |->
        IF p = "Normal" THEN <<"None", "Normal">>
        ELSE IF p = "Password" THEN <<"SensitiveData", "Password">>
        ELSE <<"None", "Terminal">>]

(* C12: a Focus-Enter on a window that allows IME issues set-content-type
   exactly once, with Normal -> (None, Normal), Password -> (SensitiveData,
   Password), Terminal -> (None, Terminal) applied to the purpose of that
   window; any other Focus-Enter issues none. *)
C12_ContentTypeByPurpose ==
    Delivered("Enter") =>
        LET sct == SelectSeq(requests, IsSetContentType) IN
        IF Tracked(EventWid) /\ ime_allowed(EventWid)
        THEN /\ Len(sct) = 1
             /\ <<sct[1][2], sct[1][3]>> = ContentTypeOf[ime_purpose(EventWid)]
        ELSE sct = <<>>

\* An Enter on a password window issued set-content-type(SensitiveData, Password).
C12_Witness ==
    /\ EnabledEnter
    /\ ime_purpose(EventWid) = "Password"
    /\ SelectSeq(requests, IsSetContentType) = <<<<"set_content_type", "SensitiveData", "Password">>>>

\* The requests and notifications of the last handler, in the order it made
\* them.
IsCall(x) == x[1] \in {"request", "event"}

CallKinds ==
    LET calls == SelectSeq(effects, IsCall) IN
    [i \in 1..Len(calls) |-> calls[i][1]]

(* C13: a Focus-Enter on a tracked window that allows IME issues exactly
   enable, set-surrounding-text(" ", 1, 1), set-content-type for the window's
   purpose and commit, in that order, and then emits exactly one ImeEnabled
   for that window; any other Focus-Enter issues no request and emits no
   ImeEnabled. *)
C13_EnterHandshake ==
    Delivered("Enter") =>
        IF Tracked(EventWid) /\ ime_allowed(EventWid)
        THEN /\ requests = <<<<"enable">>,
                             <<"set_surrounding_text", <<32>>, <<1, 1>>>>,
                             <<"set_content_type",
                               ContentTypeOf[ime_purpose(EventWid)][1],
                               ContentTypeOf[ime_purpose(EventWid)][2]>>,
                             <<"commit">>>>
             /\ events_sink = <<ImeEnabled(EventWid)>>
             /\ CallKinds = <<"request", "request", "request", "request", "event">>
        ELSE /\ requests = <<>>
             /\ events_sink = <<>>

\* An Enter on a terminal window made the four requests and then announced
\* ImeEnabled.
C13_Witness ==
    /\ EnabledEnter
    /\ ime_purpose(EventWid) = "Terminal"
    /\ Len(requests) = 4
    /\ requests[4] = <<"commit">>
    /\ CallKinds = <<"request", "request", "request", "request", "event">>

(* C14: the focused surface is set only by Focus-Enter and cleared only by
   Focus-Leave: an Enter sets it to the entered surface whatever the registry
   says about the window, a Leave sets it to none whichever surface it names,
   and every other step leaves it unchanged. *)
C14_FocusSetByEnterClearedByLeave ==
    [][/\ Delivered("Enter")' => surface' = lastEvent'.surface
       /\ Delivered("Leave")' => surface' = None
       /\ ~(Delivered("Enter")' \/ Delivered("Leave")') => surface' = surface]_vars

\* A Leave naming an untracked surface while another window still holds the
\* text input it was entered with: the focus is gone all the same.
C14_Witness ==
    /\ Delivered("Leave")
    /\ surface = None
    /\ \E w \in Surfaces :
          /\ w # EventWid
          /\ Tracked(w)
          /\ windows[w][1].text_inputs
          /\ ~Tracked(EventWid)

----------------------------------------------------------------------------
(* Transaction boundaries                                                  *)

\* The two notifications every accepted boundary pushes.
Unconditional(wid) == <<ImeRetrieveSurroundingText(wid), PreeditCleared(wid)>>

(* C15: an accepted transaction boundary leaves every pending field empty,
   and a boundary accepted after another accepted boundary with no update
   delivered in between pushes the unconditional notifications only: no
   delete, no commit, no preedit with a text. *)
C15_BoundaryConsumesPending ==
    [][(Delivered("Done")' /\ surface # None) =>
          /\ pending_surrounding_delete' = None
          /\ pending_commit' = None
          /\ pending_preedit' = None
          /\ txn.closed => events_sink' = Unconditional(FocusedWid)]_vars

\* A boundary that flushed a commit or a preedit was followed, with no update
\* in between, by a second accepted boundary.
C15_Witness ==
    /\ AcceptedDone
    /\ txn.repeat
    /\ events_sink = Unconditional(FocusedWid)
    /\ pending_commit = None
    /\ pending_preedit = None

IsRetrieve(e) == e[2] = "RetrieveSurroundingText"

(* C16: every accepted transaction boundary pushes exactly one
   RetrieveSurroundingText and then exactly one preedit-cleared notification
   (empty text, no cursor range), whatever is pending; the delete, commit and
   preedit notifications of the boundary, one per staged item, come after
   these two. *)
C16_UnconditionalPairFirst ==
    AcceptedDone =>
        /\ Len(events_sink) >= 2
        /\ SubSeq(events_sink, 1, 2) = Unconditional(FocusedWid)
        /\ Len(SelectSeq(events_sink, IsRetrieve)) = 1
        /\ Len(events_sink) = 2 + Len(TxnCommitEvents(FocusedWid))
                                + (IF TxnPreeditPending THEN 1 ELSE 0)
        /\ EventTypes(SubSeq(events_sink, 3, Len(events_sink))) \in
              { <<>>, <<"Commit">>, <<"Preedit">>, <<"Commit", "Preedit">> }

\* A boundary with a commit and a preedit staged: the two unconditional
\* notifications come first, the commit and the preedit after them.
C16_Witness ==
    /\ AcceptedDone
    /\ EventTypes(events_sink) = <<"RetrieveSurroundingText", "Preedit", "Commit", "Preedit">>
    /\ events_sink[2] = PreeditCleared(FocusedWid)
    /\ events_sink[4] = ImePreedit(FocusedWid, TextZ, Some(<<0, 0>>))

(* C18: a Focus-Leave whose surface does not resolve to a tracked window
   leaves the registry as it is and pushes no ImeDisabled, yet issues disable
   and commit and clears the focused surface; one whose surface resolves
   unregisters the text input from that window and pushes exactly one
   ImeDisabled addressed to it, after the disable and commit requests. *)
C18_LeaveOnUntrackedAndTracked ==
    [][Delivered("Leave")' =>
          /\ requests' = <<ReqDisable, ReqCommit>>
          /\ surface' = None
          /\ IF Tracked(EventWid')
             THEN /\ windows' = [windows EXCEPT ![EventWid'] =
                                    Some([@[1] EXCEPT !.text_inputs = FALSE])]
                  /\ events_sink' = <<ImeDisabled(EventWid')>>
                  /\ CallKinds' = <<"request", "request", "event">>
             ELSE /\ windows' = windows
                  /\ events_sink' = <<>>
                  /\ CallKinds' = <<"request", "request">>]_vars

\* A Leave on a tracked window, after an Enter had enabled IME: the text input
\* is unregistered and ImeDisabled follows the two requests.
C18_Witness ==
    /\ Delivered("Leave")
    /\ everEnabled
    /\ Tracked(EventWid)
    /\ ~windows[EventWid][1].text_inputs
    /\ events_sink = <<ImeDisabled(EventWid)>>
    /\ CallKinds = <<"request", "request", "event">>

----------------------------------------------------------------------------
(* Locking                                                                 *)

IsLockOp(x) == x[1] \in {"access", "lock", "unlock"}

\* The registry accesses and the lock operations of the last handler, in the
\* order it made them.
LockTrace == SelectSeq(effects, IsLockOp)

\* The state lock is held just before step i of the last handler.
StateLockHeld(i) ==
    \E j \in 1..(i - 1) :
        /\ effects[j][1] = "lock"
        /\ effects[j][2] = "text_input_data"
        /\ \A k \in (j + 1)..(i - 1) : effects[k][1] # "unlock" \/ effects[k][2] # "text_input_data"

\* Every lock the last handler took it also dropped.
AllReleased ==
    \A i \in 1..Len(effects) :
        effects[i][1] = "lock" =>
            \E j \in (i + 1)..Len(effects) :
                /\ effects[j][1] = "unlock"
                /\ effects[j][2] = effects[i][2]
                /\ effects[j][3] = effects[i][3]

(* C19 as stated: no handler reaches the window registry or locks a window
   while it holds the state lock, and every lock taken is released when the
   handler returns. *)
C19_RegistryAndWindowBeforeStateLock ==
    /\ AllReleased
    /\ \A i \in 1..Len(effects) :
          (/\ effects[i][1] \in {"access", "lock"}
           /\ effects[i][2] \in {"windows", "window"}) => ~StateLockHeld(i)

(* C19, amended: every handler reaches the window registry first and then
   takes the state lock; Enter and Leave on a tracked window lock that window
   while holding the state lock and drop it first; no other lock is taken
   and every lock taken is released when the handler returns. *)
C19_RegistryThenStateThenWindow ==
    effects # <<>> =>
        /\ AllReleased
        /\ IF (Delivered("Enter") \/ Delivered("Leave")) /\ Tracked(EventWid)
           THEN LockTrace = << <<"access", "windows", 0>>,
                               <<"lock", "text_input_data", 0>>,
                               <<"lock", "window", EventWid>>,
                               <<"unlock", "window", EventWid>>,
                               <<"unlock", "text_input_data", 0>> >>
           ELSE LockTrace = << <<"access", "windows", 0>>,
                               <<"lock", "text_input_data", 0>>,
                               <<"unlock", "text_input_data", 0>> >>

\* An Enter on a tracked window locked the window while the state lock was
\* held.
C19_Witness ==
    /\ Delivered("Enter")
    /\ Tracked(EventWid)
    /\ \E i \in 1..Len(effects) :
          /\ effects[i][1] = "lock"
          /\ effects[i][2] = "window"
          /\ StateLockHeld(i)

----------------------------------------------------------------------------
(* Addressing of the flush                                                 *)

IsCommit(e) == e[2] = "Commit"

(* C20: every notification of an accepted transaction boundary is addressed
   to the window id of the surface focused when the boundary is handled, and
   what was staged is delivered there wherever the focus was when it was
   staged: a commit or preedit delivered while no surface was focused, or
   before a Leave, goes to the window focused at the boundary. *)
C20_AddressedToFocusAtBoundary ==
    AcceptedDone =>
        /\ \A i \in 1..Len(events_sink) : events_sink[i][1] = FocusedWid
        /\ SelectSeq(events_sink, IsCommit) = TxnCommitEvents(FocusedWid)
        /\ TxnPreeditPending =>
              /\ Len(events_sink) >= 3
              /\ events_sink[Len(events_sink)][2] = "Preedit"
              /\ events_sink[Len(events_sink)][3] = UnwrapOrDefault(txn.last[1].text)

\* commit("y") was delivered outside the focus session of window 2, and the
\* first accepted boundary of that session delivered it to window 2.
C20_Witness ==
    /\ AcceptedDone
    /\ txn.stale
    /\ txn.n = 0
    /\ txn.commit = Some(Some(TextY))
    /\ FocusedWid = 2
    /\ Tracked(FocusedWid)
    /\ events_sink = Unconditional(FocusedWid) \o <<ImeCommit(FocusedWid, TextY)>>

====
